---- MODULE Spec2Model ----
(***************************************************************************)
(* Ant simulation (src/unnamed/part_001): the World grid (getCell,         *)
(* clearCell, spawnFood), the Ant decision and action functions and the    *)
(* four phases of Simulation.update(), stepped one loop iteration at a     *)
(* time, followed by the rest of simulationLoop (tick counter, food spawn, *)
(* render).                                                                *)
(*                                                                         *)
(* Numbers.  health is a JavaScript double and "asexual" halves it, so the *)
(* model stores health in units of 1/Denom (H(n) is n health points); an   *)
(* ant halves at most once per tick and a run has at most MaxFrames ticks, *)
(* so every division by two is exact.  Math.random() is an input of the    *)
(* action that calls it: hundredths for the cell roll of getCell,          *)
(* thousandths for the lifespan jitter, the index itself for sampleIndex.  *)
(***************************************************************************)
EXTENDS Integers, Sequences, FiniteSets, TLC

(***************************************************************************)
(* params (part_001 lines 81-92).  antLifespan, eggToAdultTicks, maxAnts,  *)
(* foodSpawnInterval and foodSpawnCount are user-adjustable (Apply         *)
(* Parameters); the model runs them scaled down so that a whole life fits  *)
(* a bounded run and a spawn event can fill the small viewport exactly.    *)
(***************************************************************************)
antLifespan == 3
eggToAdultTicks == 2
foodSpawnInterval == 2
foodSpawnCount == 2
maxAntHealth == 100
\* densities in hundredths: 0.05 and 0.05
foodDensity == 5
terrainDensity == 5
\* Ant.randomBiases: every layer has 10 entries, so predict() returns 10 scores
OutputLen == 10

\* cellSize (pixels per cell), camera position and canvas size in pixels
cellSize == 10
cameraX == 0
cameraY == 0
canvasWidth == 15
canvasHeight == 5

\* Ant.randomWeights / randomBiases: three layers
LayerCount == 3
\* processVision: the input vector has (2 * visionRange + 1) ** 2 entries
InputLen == 9
\* params.genomeNoise, 0.1, in thousandths
genomeNoise == 100

(***************************************************************************)
(* Bounds of the model.                                                    *)
(***************************************************************************)
\* the longest probability vector sampleIndex is examined on
MaxProbLen == 3
\* how far below 1 the sum of a probability vector may fall, in 1/Scale
SumSlack == 1
\* the length of a layer of the genomes crossover is examined on
CrossLen == 1
\* the most numbers a weights or biases URL parameter holds
MaxUrlLen == 2
\* params.antDensity, the size of a constructed population, scaled down
antDensity == 2
\* how many times a button handler may run new Simulation()
MaxBuilds == 2
\* loop iterations (frames) of one run when the run starts with one ant
MaxFrames == 2
\* loop iterations of a run that starts with two or more ants
MaxFramesCrowd == 1
\* the largest params.maxAnts a run is started with
MaxCap == 5

Denom == 2 ^ MaxFrames
H(n) == n * Denom

\* The coordinates whose roll is free.  Every other coordinate rolls terrain
\* (a roll in [foodDensity, foodDensity + terrainDensity)), which keeps the
\* ants, and with them the generated part of the unbounded grid, inside a
\* finite region.
Interior == {<<0, 0>>, <<1, 0>>, <<0, 1>>}

VARIABLES
    ants,       \* Simulation.ants: the live organisms, in array order
    grid,       \* Simulation.grid: generated coordinates -> classification
    maxAnts,    \* params.maxAnts
    tickCount,  \* the global tick counter of simulationLoop
    pc,         \* position inside simulationLoop / update()
    idx,        \* index of the for-of loop of the current phase
    matedAnts,  \* the Set matedAnts of update(), as ant ids
    nextId,     \* the next fresh identity (stands for crypto.randomUUID())
    isPaused,   \* the flag the Play/Pause button toggles
    framesLeft, \* loop iterations this run may still take (bound)
    \* observers: they record what happened and decide nothing
    startAnts,  \* ants as they were when the current tick began
    jitter,     \* ant id -> lifespan jitter drawn for it in the current tick
    processed,  \* ids of the ants whose processAction ran in the current tick
    pairs,      \* <<initiator id, partner id>> of each pairing of the tick
    preCull,    \* ants as they were when phase 3 ended, before the filters
    born,       \* the offspring of the current tick with their parents
    changes,    \* the generated coordinates the last step reclassified
    call,       \* the last direct call of a grid method and what it returned
    firstRet,   \* coordinate -> what its first getCell returned, forgotten
                \* when clearCell or a food spawn writes the coordinate
    \* state outside the simulation loop
    seedGenome,         \* the global seedGenome: null or a network
    currentSelectedAnt, \* the ant the info box shows: null or an ant
    clicked,    \* the last button handler that ran, and the networks adopted
    acted,      \* the last direct call of processAction and its effect
    args,       \* the arguments of the function under examination
    result      \* what it returned for them

\* the variables the simulation loop never writes
offLoop == <<seedGenome, currentSelectedAnt, clicked, acted, args, result>>

vars == <<ants, grid, maxAnts, tickCount, pc, idx, matedAnts, nextId, isPaused,
          framesLeft, startAnts, jitter, processed, pairs, preCull, born,
          changes, call, firstRet, offLoop>>

Max(a, b) == IF a >= b THEN a ELSE b
\* a Math.min that gives its second argument, capped or not
MinSecond(a, b) == b

Min(a, b) == IF a <= b THEN a ELSE b
FloorDiv(a, b) == a \div b
CeilDiv(a, b) == -((-a) \div b)

EmptyMap == [c \in {} |-> "empty"]
Ids(as) == {as[i].id : i \in 1..Len(as)}
AntOf(as, id) == as[CHOOSE i \in 1..Len(as) : as[i].id = id]

(***************************************************************************)
(* World grid                                                              *)
(***************************************************************************)
\* getCell lines 401-407: the classification a roll gives
CellType(rand) ==
    IF rand < foodDensity THEN "food"
    ELSE IF rand < foodDensity + terrainDensity THEN "terrain"
    ELSE "empty"

\* the rolls Math.random() may give for a coordinate (see Interior)
CellRolls(c) ==
    IF c \in Interior
    THEN {foodDensity - 1, foodDensity, foodDensity + terrainDensity - 1,
          foodDensity + terrainDensity}
    ELSE {foodDensity}

\* a getCell that rolls again on every query
getCellReroll(g, c, rand) ==
    [grid |-> (c :> CellType(rand)) @@ g, value |-> CellType(rand),
     drew |-> TRUE]

\* a getCell that returns the classification it rolled without storing it
getCellNoStore(g, c, rand) ==
    IF c \notin DOMAIN g
    THEN [grid |-> g, value |-> CellType(rand), drew |-> TRUE]
    ELSE [grid |-> g, value |-> g[c], drew |-> FALSE]

\* getCell(x, y): the grid after the call, the value returned, and whether
\* Math.random() was called
getCell(g, c, rand) ==
    IF c \notin DOMAIN g
    THEN [grid |-> (c :> CellType(rand)) @@ g, value |-> CellType(rand),
          drew |-> TRUE]
    ELSE [grid |-> g, value |-> g[c], drew |-> FALSE]

\* a clearCell that writes nothing
clearCellNot(g, c) == g

\* clearCell(x, y): grid.set(key, "empty"), whatever the cell was
clearCell(g, c) == (c :> "empty") @@ g

\* grid.set(key, "food") of spawnFood
setFood(g, c) == (c :> "food") @@ g

\* what happened to the coordinates that were generated: their old and new
\* classification and the operation that wrote them
Diff(g, g2, by) ==
    {[c |-> c, from |-> g[c], to |-> IF c \in DOMAIN g2 THEN g2[c] ELSE "none",
      by |-> by] : c \in {d \in DOMAIN g : d \notin DOMAIN g2 \/ g2[d] # g[d]}}

\* getAntAt(x, y): Array.find, the index of the first ant there, 0 for none
getAntAt(as, x, y) ==
    LET here == {i \in 1..Len(as) : as[i].x = x /\ as[i].y = y}
    IN IF here = {} THEN 0 ELSE CHOOSE i \in here : \A j \in here : i <= j

(***************************************************************************)
(* Ant                                                                     *)
(***************************************************************************)
\* new Ant(x, y, null, stage): age 0, health 100, stageAge 0, no nextAction
\* yet, and a NeuralNetwork of its own.  nn is the identity of the
\* NeuralNetwork object, store the identity of its weights and biases arrays
\* with their layers; a fresh object takes the identity of its ant.
NewAnt(id, x, y, stage) ==
    [id |-> id, x |-> x, y |-> y, age |-> 0, health |-> H(100),
     stage |-> stage, stageAge |-> 0, nextAction |-> "undefined",
     nn |-> id, store |-> id]

\* new Ant(x, y, neuralNetwork, stage) with a network given (line 159):
\* this.neuralNetwork = neuralNetwork
SeededAnt(id, x, y, network, stage) ==
    [NewAnt(id, x, y, stage) EXCEPT !.nn = network.nn, !.store = network.store]

\* the egg both reproduction paths build: new Ant(x, y), then stage "egg",
\* stageAge 0, health 50.  Mating gives it a new NeuralNetwork over arrays
\* that layer.map built (lines 473-485): nothing is shared.
NewEgg(id, x, y) ==
    [NewAnt(id, x, y, "egg") EXCEPT !.stage = "egg", !.stageAge = 0,
                                    !.health = H(50)]

\* an egg that keeps the random network new Ant(x, y) gave it
CloneEggFresh(id, parent) == NewEgg(id, parent.x, parent.y)

\* asexual, lines 361-364: new NeuralNetwork(this.neuralNetwork.weights,
\* this.neuralNetwork.biases), a new object over the parent's arrays
CloneEgg(id, parent) ==
    [NewEgg(id, parent.x, parent.y) EXCEPT !.store = parent.store]

\* processVision: the 3x3 neighbourhood, row-major (dy outer, dx inner)
Neighbourhood(a) ==
    [k \in 1..9 |-> <<a.x + ((k - 1) % 3) - 1, a.y + ((k - 1) \div 3) - 1>>]

\* the value processVision writes for one cell
VisionValue(as, g, c) ==
    IF getAntAt(as, c[1], c[2]) # 0 THEN 2
    ELSE IF g[c] = "food" THEN 1
    ELSE IF g[c] = "terrain" THEN 0
    ELSE -1

\* getCell on each coordinate of cs in turn; rolls gives the roll of each
\* coordinate that is not generated yet
RECURSIVE GetCells(_, _, _)
GetCells(g, cs, rolls) ==
    IF cs = <<>> THEN g
    ELSE LET c == Head(cs)
             roll == IF c \in DOMAIN rolls THEN rolls[c] ELSE 0
         IN GetCells(getCell(g, c, roll).grid, Tail(cs), rolls)

\* a processVision that empties the cell the ant stands on
processVisionClearing(as, g, a, rolls) ==
    LET g2 == clearCell(GetCells(g, Neighbourhood(a), rolls), <<a.x, a.y>>)
    IN [grid |-> g2,
        input |-> [k \in 1..9 |-> VisionValue(as, g2, Neighbourhood(a)[k])]]

\* processVision(simulation): getCell on each of the nine cells, then the
\* input vector
processVision(as, g, a, rolls) ==
    LET g2 == GetCells(g, Neighbourhood(a), rolls)
    IN [grid |-> g2,
        input |-> [k \in 1..9 |-> VisionValue(as, g2, Neighbourhood(a)[k])]]

\* a roll for each coordinate of cells that is not generated yet
UnseenRolls(g, cells) ==
    LET unseen == cells \ DOMAIN g
    IN {[c \in unseen |-> IF c \in Interior THEN ri[c] ELSE foodDensity] :
            ri \in [unseen \cap Interior -> CellRolls(<<0, 0>>)]}

VisionRolls(g, a) == UnseenRolls(g, {Neighbourhood(a)[k] : k \in 1..9})

AdultActions ==
    <<"up", "down", "left", "right", "attack", "eat", "sleep", "mate", "asexual">>
OtherActions == <<"attack", "eat", "sleep">>

\* sampleIndex over the softmax of the 10 scores: every probability is
\* positive, so every index 0..9 can be drawn
SampleRange == 0..(OutputLen - 1)

\* the JavaScript remainder a % n for n > 0: the sign of a
JsRem(a, n) == IF a >= 0 THEN a % n ELSE -((-a) % n)

\* array[k] of JavaScript, indices from 0: undefined outside the array
At(array, k) ==
    IF k \in 0..(Len(array) - 1) THEN array[k + 1] ELSE "undefined"

\* a decideAction that lets an egg choose like an adult
decideActionEggsToo(a, chosenIndex) ==
    At(AdultActions, JsRem(chosenIndex, Len(AdultActions)))

\* decideAction: "none" for an egg (line 274), else
\* actions[chosenIndex % actions.length] (lines 283-309)
decideAction(a, chosenIndex) ==
    IF a.stage = "egg" THEN "none"
    ELSE LET actions == IF a.stage = "adult" THEN AdultActions
                        ELSE OtherActions
         IN At(actions, JsRem(chosenIndex, Len(actions)))

\* processAction, movement (lines 315-331): the destination
Destination(a, action) ==
    <<IF action = "left" THEN a.x - 1 ELSE IF action = "right" THEN a.x + 1 ELSE a.x,
      IF action = "up" THEN a.y - 1 ELSE IF action = "down" THEN a.y + 1 ELSE a.y>>

Movement == {"up", "down", "left", "right"}

\* the roll getCell needs for coordinate c: none when c is generated
RollsFor(g, c) == IF c \in DOMAIN g THEN {0} ELSE CellRolls(c)

\* an attack that scans right, left, down, up
AttackTargetRightFirst(as, a) ==
    LET up == getAntAt(as, a.x, a.y - 1)
        down == getAntAt(as, a.x, a.y + 1)
        left == getAntAt(as, a.x - 1, a.y)
        right == getAntAt(as, a.x + 1, a.y)
    IN IF right # 0 THEN right ELSE IF left # 0 THEN left
       ELSE IF down # 0 THEN down ELSE up

\* attack (lines 334-346): the first occupied cell in the order up, down,
\* left, right; 0 for no target
AttackTarget(as, a) ==
    LET up == getAntAt(as, a.x, a.y - 1)
        down == getAntAt(as, a.x, a.y + 1)
        left == getAntAt(as, a.x - 1, a.y)
        right == getAntAt(as, a.x + 1, a.y)
    IN IF up # 0 THEN up ELSE IF down # 0 THEN down
       ELSE IF left # 0 THEN left ELSE right

\* a movement that terrain does not stop
BlockedNever(value) == FALSE

\* line 323: the destination cell is terrain, the movement is blocked
Blocked(value) == value = "terrain"

\* processAction(action, simulation) for ants[i]; roll is the roll of the one
\* getCell call a movement or an eat makes.  Gives the ants and the grid.
processAction(as, g, cap, i, action, roll, eggId) ==
    LET a == as[i] IN
    IF action \in Movement THEN
        LET dest == Destination(a, action)
            got == getCell(g, dest, roll)
        IN [ants |-> IF Blocked(got.value) THEN as
                     ELSE [as EXCEPT ![i].x = dest[1], ![i].y = dest[2]],
            grid |-> got.grid]
    ELSE IF action = "attack" THEN
        LET t == AttackTarget(as, a)
        IN [ants |-> IF t # 0 /\ as[t].stage = "egg"
                     THEN [as EXCEPT ![t].health = @ - H(50),
                                     ![i].health = Min(H(maxAntHealth), @ + H(20))]
                     ELSE IF t # 0 THEN [as EXCEPT ![t].health = @ - H(10)]
                     ELSE as,
            grid |-> g]
    ELSE IF action = "eat" THEN
        LET got == getCell(g, <<a.x, a.y>>, roll)
        IN IF got.value = "food"
           THEN [ants |-> [as EXCEPT ![i].health = Min(H(100), @ + H(20))],
                 grid |-> clearCell(got.grid, <<a.x, a.y>>)]
           ELSE [ants |-> as, grid |-> got.grid]
    ELSE IF action = "sleep" THEN
        [ants |-> [as EXCEPT ![i].health = Min(H(100), @ + H(5))],
         grid |-> g]
    ELSE IF action = "asexual" THEN
        [ants |-> IF Len(as) < cap
                  THEN Append([as EXCEPT ![i].health = @ \div 2],
                              CloneEgg(eggId, a))
                  ELSE as,
         grid |-> g]
    ELSE [ants |-> as, grid |-> g]

\* the coordinate whose roll processAction may need
RolledCell(a, action) ==
    IF action \in Movement THEN Destination(a, action) ELSE <<a.x, a.y>>

(***************************************************************************)
(* Simulation.update(), one loop iteration per step                        *)
(***************************************************************************)
NoCall == [op |-> "none", c |-> <<0, 0>>, before |-> "none", value |-> "none",
           drew |-> FALSE, again |-> FALSE, changed |-> FALSE]

\* a loop that visits only the elements the array had when the tick began
AdvanceSnapshot(phase, next, as) ==
    IF idx < Len(startAnts) THEN pc' = phase /\ idx' = idx + 1
    ELSE pc' = next /\ idx' = (IF next = "cull" THEN 0 ELSE 1)

\* the loop of a phase goes on to the next array element (for-of sees the
\* elements pushed while it runs) or the phase ends
Advance(phase, next, as) ==
    IF idx < Len(as) THEN pc' = phase /\ idx' = idx + 1
    ELSE pc' = next /\ idx' = (IF next = "cull" THEN 0 ELSE 1)

\* a loop that ignores the pause flag
MayUpdateAlways(paused) == TRUE

\* line 715: update() may run (the delta test is left to the scheduler)
MayUpdate(paused) == ~paused

\* simulationLoop, lines 713-717: not paused and enough time has passed, so
\* update() is entered
BeginTick ==
    /\ pc = "idle"
    /\ MayUpdate(isPaused)
    /\ framesLeft > 0
    /\ framesLeft' = framesLeft - 1
    /\ startAnts' = ants
    /\ jitter' = EmptyMap
    /\ processed' = {}
    /\ pairs' = <<>>
    /\ matedAnts' = {}
    /\ born' = {}
    /\ IF Len(ants) = 0 THEN pc' = "cull" /\ idx' = 0
                        ELSE pc' = "decide" /\ idx' = 1
    /\ changes' = {}
    /\ UNCHANGED <<isPaused, offLoop,
                   ants, grid, maxAnts, tickCount, nextId, preCull, call,
                   firstRet>>

\* Phase 1, lines 423-425: ant.nextAction = ant.decideAction(this)
Decide ==
    /\ pc = "decide"
    /\ LET a == ants[idx] IN
       IF a.stage = "egg"
       THEN /\ ants' = [ants EXCEPT ![idx].nextAction = decideAction(a, 0)]
            /\ grid' = grid
       ELSE \E rolls \in VisionRolls(grid, a) : \E chosenIndex \in SampleRange :
            /\ grid' = processVision(ants, grid, a, rolls).grid
            /\ ants' = [ants EXCEPT ![idx].nextAction = decideAction(a, chosenIndex)]
    /\ changes' = Diff(grid, grid', "vision")
    /\ Advance("decide", "mate", ants)
    /\ UNCHANGED <<isPaused, born, offLoop,
                   maxAnts, tickCount, matedAnts, nextId, framesLeft, startAnts,
                   jitter, processed, pairs, preCull, call, firstRet>>

\* a partner test that forgets the matedAnts set
EligibleAgain(as, mated, k) ==
    /\ k # 0
    /\ as[k].nextAction = "mate"
    /\ as[k].stage = "adult"

\* lines 435-453: the partner of ant a, as an index; 0 for none.  Each of the
\* four neighbour cells is asked for its ant with getAntAt.
Eligible(as, mated, k) ==
    /\ k # 0
    /\ as[k].nextAction = "mate"
    /\ as[k].stage = "adult"
    /\ as[k].id \notin mated

\* a partner search that looks up and down only
FindPartnerVertical(as, mated, a) ==
    LET up == getAntAt(as, a.x, a.y - 1)
        down == getAntAt(as, a.x, a.y + 1)
    IN IF Eligible(as, mated, up) THEN up
       ELSE IF Eligible(as, mated, down) THEN down
       ELSE 0

FindPartner(as, mated, a) ==
    LET up == getAntAt(as, a.x, a.y - 1)
        down == getAntAt(as, a.x, a.y + 1)
        left == getAntAt(as, a.x - 1, a.y)
        right == getAntAt(as, a.x + 1, a.y)
    IN IF Eligible(as, mated, up) THEN up
       ELSE IF Eligible(as, mated, down) THEN down
       ELSE IF Eligible(as, mated, left) THEN left
       ELSE IF Eligible(as, mated, right) THEN right
       ELSE 0

\* lines 430-434: the ant may initiate a pairing
MayInitiate(a, mated) ==
    a.nextAction = "mate" /\ a.stage = "adult" /\ a.id \notin mated

\* a pairing condition without the population cap
MayPairNoCap(as, cap, partner) == partner # 0

\* line 454: a partner was found and the population is below the cap
MayPair(as, cap, partner) == partner # 0 /\ Len(as) < cap

\* an egg laid at the partner's coordinates
MatingEggAtPartner(id, a, partner) == NewEgg(id, partner.x, partner.y)

\* lines 481-491: new Ant(ant.x, ant.y, ...), the egg of a pairing, laid at
\* the coordinates of the initiating ant
MatingEgg(id, a, partner) == NewEgg(id, a.x, a.y)

\* Phase 2, lines 429-496, for one ant
Mate ==
    /\ pc = "mate"
    /\ LET a == ants[idx]
           partner == IF MayInitiate(a, matedAnts)
                      THEN FindPartner(ants, matedAnts, a) ELSE 0
       IN IF MayInitiate(a, matedAnts) /\ MayPair(ants, maxAnts, partner)
          THEN /\ ants' = Append(ants, MatingEgg(nextId, a, ants[partner]))
               /\ nextId' = nextId + 1
               /\ matedAnts' = matedAnts \cup {a.id, ants[partner].id}
               /\ pairs' = Append(pairs, <<a.id, ants[partner].id>>)
               /\ born' = born \cup {[child |-> nextId, by |-> "mate",
                                       parents |-> {a.id, ants[partner].id}]}
          ELSE UNCHANGED <<ants, nextId, matedAnts, pairs, born>>
    /\ changes' = {}
    /\ Advance("mate", "act", ants')
    /\ UNCHANGED <<isPaused, offLoop,
                   grid, maxAnts, tickCount, framesLeft, startAnts, jitter,
                   processed, preCull, call, firstRet>>

\* (Math.random() - 0.5) * 0.05 in thousandths: [-25, 25)
JitterDraws == {-25, 0, 24}

\* an aging step that compares age with antLifespan alone
AgeStepNoJitter(a, jit) ==
    LET b == [a EXCEPT !.age = @ + 1, !.stageAge = @ + 1, !.health = @ - H(1)]
        c == IF b.stage = "egg" /\ b.stageAge >= eggToAdultTicks
             THEN [b EXCEPT !.stage = "adult", !.health = H(100)]
             ELSE b
    IN IF c.stage = "adult" /\ c.age >= antLifespan
       THEN [c EXCEPT !.stage = "old"]
       ELSE c

\* an upkeep of two health points
UpkeepTwice(a) ==
    [a EXCEPT !.age = @ + 1, !.stageAge = @ + 1, !.health = @ - H(2)]

\* lines 503-505: ant.age++, ant.stageAge++, ant.health -= 1
Upkeep(a) ==
    [a EXCEPT !.age = @ + 1, !.stageAge = @ + 1, !.health = @ - H(1)]

\* an egg that hatches one tick early
HatchesEarly(b) == b.stage = "egg" /\ b.stageAge + 1 >= eggToAdultTicks

\* line 506: the egg has spent eggToAdultTicks ticks in its stage
Hatches(b) == b.stage = "egg" /\ b.stageAge >= eggToAdultTicks

\* an adult that turns old two ticks late
TurnsOldLate(c, jit) ==
    c.stage = "adult" /\ c.age * 1000 >= (antLifespan + 2) * 1000 + jit

\* line 510: the adult has reached antLifespan plus the jitter
TurnsOld(c, jit) ==
    c.stage = "adult" /\ c.age * 1000 >= antLifespan * 1000 + jit

\* lines 503-512 for one ant: age, stageAge, upkeep, hatching, old age
AgeStep(a, jit) ==
    LET b == Upkeep(a)
        c == IF Hatches(b)
             THEN [b EXCEPT !.stage = "adult", !.health = H(100)]
             ELSE b
    IN IF TurnsOld(c, jit)
       THEN [c EXCEPT !.stage = "old"]
       ELSE c

\* a phase 3 that runs processAction for every ant
RunsAlways(a) == TRUE

\* a phase 3 that skips the action of an organism without health
RunsIfAlive(a) == a.nextAction # "mate" /\ a.health > 0

\* lines 500-502: processAction runs unless the proposed action is mate
Runs(a) == a.nextAction # "mate"

\* Phase 3, lines 499-513, for one ant
Act ==
    /\ pc = "act"
    /\ LET a == ants[idx]
           runs == Runs(a)
       IN \E roll \in (IF a.nextAction \in Movement \cup {"eat"}
                       THEN RollsFor(grid, RolledCell(a, a.nextAction))
                       ELSE {0}) :
          LET r == IF runs
                   THEN processAction(ants, grid, maxAnts, idx, a.nextAction,
                                      roll, nextId)
                   ELSE [ants |-> ants, grid |-> grid]
              \* the jitter is drawn only when the stage is adult at line 510
              adultNow == \/ r.ants[idx].stage = "adult"
                          \/ /\ r.ants[idx].stage = "egg"
                             /\ r.ants[idx].stageAge + 1 >= eggToAdultTicks
          IN \E jit \in (IF adultNow THEN JitterDraws ELSE {0}) :
             /\ ants' = [r.ants EXCEPT ![idx] = AgeStep(@, jit)]
             /\ grid' = r.grid
             /\ nextId' = IF Len(r.ants) > Len(ants) THEN nextId + 1 ELSE nextId
             /\ born' = IF Len(r.ants) > Len(ants)
                        THEN born \cup {[child |-> nextId, by |-> "asexual",
                                         parents |-> {a.id}]}
                        ELSE born
             /\ processed' = IF runs THEN processed \cup {a.id} ELSE processed
             \* observer: the draw, kept where it can decide the comparison
             /\ jitter' = IF adultNow /\ a.age + 1 = antLifespan
                          THEN (a.id :> jit) @@ jitter ELSE jitter
    /\ changes' = Diff(grid, grid', ants[idx].nextAction)
    /\ Advance("act", "cull", ants')
    /\ UNCHANGED <<isPaused, offLoop,
                   maxAnts, tickCount, matedAnts, framesLeft, startAnts, pairs,
                   preCull, call, firstRet>>

\* filters that keep an ant of health 0, or an old ant
AliveOrZero(a) == a.health >= 0
KeepOld(a) == TRUE

\* lines 514-515: the two filters
Alive(a) == a.health > 0
NotOld(a) == a.stage # "old"
CullAnts(as) == SelectSeq(SelectSeq(as, Alive), NotOld)

\* the end of update(): the cull; update() has returned at pc = "returned"
Cull ==
    /\ pc = "cull"
    /\ ants' = CullAnts(ants)
    /\ preCull' = ants
    /\ matedAnts' = {}
    /\ changes' = {}
    /\ pc' = "returned"
    /\ UNCHANGED <<isPaused, born, offLoop,
                   grid, maxAnts, tickCount, idx, nextId, framesLeft, startAnts,
                   jitter, processed, pairs, call, firstRet>>

(***************************************************************************)
(* The rest of simulationLoop: tick counter, food spawn, render            *)
(***************************************************************************)
\* spawnFood lines 563-566: the visible grid boundaries
SpawnLeft == FloorDiv(cameraX, cellSize)
SpawnTop == FloorDiv(cameraY, cellSize)
SpawnRight == FloorDiv(cameraX + canvasWidth, cellSize)
SpawnBottom == FloorDiv(cameraY + canvasHeight, cellSize)
SpawnCells ==
    {<<x, y>> : x \in SpawnLeft..SpawnRight, y \in SpawnTop..SpawnBottom}

\* spawnFood lines 569-573: grid.set(key, "food") for each target in turn
RECURSIVE SpawnAll(_, _)
SpawnAll(g, targets) ==
    IF targets = <<>> THEN g
    ELSE SpawnAll(setFood(g, Head(targets)), Tail(targets))

\* a loop that spawns food after every tick
SpawnDueAlways(count) == TRUE

\* line 719: the counter is a multiple of foodSpawnInterval
SpawnDue(count) == count % foodSpawnInterval = 0

\* lines 718-721: tickCount++, then spawnFood() on a multiple of the interval
AfterUpdate ==
    /\ pc = "returned"
    /\ tickCount' = tickCount + 1
    /\ IF SpawnDue(tickCount')
       THEN \E targets \in [1..foodSpawnCount -> SpawnCells] :
                grid' = SpawnAll(grid, targets)
       ELSE grid' = grid
    /\ changes' = Diff(grid, grid', "spawn")
    /\ pc' = "render"
    \* the observers of the tick are wiped
    /\ startAnts' = <<>>
    /\ jitter' = EmptyMap
    /\ processed' = {}
    /\ pairs' = <<>>
    /\ preCull' = <<>>
    /\ born' = {}
    /\ UNCHANGED <<isPaused, offLoop,
                   ants, maxAnts, idx, matedAnts, nextId, framesLeft, call,
                   firstRet>>

\* the click handler of playPauseButton (lines 590-596); handlers run
\* between two iterations of the loop
TogglePause ==
    /\ pc = "idle"
    /\ isPaused' = ~isPaused
    /\ changes' = {}
    /\ UNCHANGED <<ants, grid, maxAnts, tickCount, pc, idx, matedAnts, nextId,
                   framesLeft, startAnts, jitter, processed, pairs, preCull,
                   born, call, firstRet, offLoop>>

\* simulationLoop when paused or called too early: no update()
SkipFrame ==
    /\ pc = "idle"
    /\ framesLeft > 0
    /\ framesLeft' = framesLeft - 1
    /\ pc' = "render"
    /\ changes' = {}
    /\ UNCHANGED <<isPaused, born, offLoop,
                   ants, grid, maxAnts, tickCount, idx, matedAnts, nextId,
                   startAnts, jitter, processed, pairs, preCull, call, firstRet>>

\* render lines 521-529: the cells getCell is called on, in loop order
RenderCols == CeilDiv(canvasWidth, cellSize)
RenderRows == CeilDiv(canvasHeight, cellSize)
RenderStartX == FloorDiv(cameraX, cellSize) - 1
RenderStartY == FloorDiv(cameraY, cellSize) - 1
RenderOrder ==
    [k \in 1..((RenderCols + 3) * (RenderRows + 3)) |->
        <<RenderStartX + ((k - 1) \div (RenderRows + 3)),
          RenderStartY + ((k - 1) % (RenderRows + 3))>>]
RenderCells == {RenderOrder[k] : k \in DOMAIN RenderOrder}

\* simulation.render(): getCell on every visible cell; the loop iteration ends
Render ==
    /\ pc = "render"
    /\ \E rolls \in UnseenRolls(grid, RenderCells) :
          grid' = GetCells(grid, RenderOrder, rolls)
    /\ changes' = Diff(grid, grid', "render")
    /\ pc' = "idle"
    /\ UNCHANGED <<isPaused, born, offLoop,
                   ants, maxAnts, tickCount, idx, matedAnts, nextId, framesLeft,
                   startAnts, jitter, processed, pairs, preCull, call, firstRet>>

(***************************************************************************)
(* Start states: the tick boundaries a run of the simulation is started    *)
(* from.  age = stageAge at every tick boundary (both start at 0 and are   *)
(* incremented together), and an ant two ticks old or more has paid upkeep *)
(* after its last action, so its health is at most 99.                     *)
(***************************************************************************)
\* an organism as the constructor of Simulation builds it (line 388)
Constructed(id, c) == NewAnt(id, c[1], c[2], "adult")

\* an adult in its last tick before the lifespan comparison can succeed
Elder(id, c) ==
    [Constructed(id, c) EXCEPT !.age = antLifespan - 1,
                               !.stageAge = antLifespan - 1,
                               !.health = H(99), !.nextAction = "sleep"]

\* an adult one upkeep away from health 0
Weak(id, c) ==
    [Constructed(id, c) EXCEPT !.age = 1, !.stageAge = 1, !.health = H(1),
                               !.nextAction = "up"]

\* an egg at the end of the tick it was laid in
LaidEgg(id, c) ==
    [NewEgg(id, c[1], c[2]) EXCEPT !.age = 1, !.stageAge = 1, !.health = H(49)]

\* a grid every visible cell of which was generated by an earlier render
FullGrid(f) ==
    [c \in RenderCells |-> IF c \in Interior THEN f[c] ELSE "terrain"]

FullGrids == {FullGrid(f) : f \in [Interior -> {"empty", "food", "terrain"}]}

\* the two grids the runs with several ants start from
CrowdGrids ==
    {FullGrid([c \in Interior |-> "empty"]),
     FullGrid(<<0, 0>> :> "food" @@ <<1, 0>> :> "terrain" @@ <<0, 1>> :> "empty")}

\* one ant, some ticks into its life
StartAged ==
    UNION {{<<Elder(1, c)>>, <<Weak(1, c)>>, <<LaidEgg(1, c)>>} : c \in Interior}

\* two ants: who they are, then where
PairKinds ==
    {<<"new", "new">>, <<"new", "egg">>, <<"egg", "new">>, <<"weak", "new">>,
     <<"new", "weak">>, <<"elder", "new">>}

Made(kind, id, c) ==
    IF kind = "new" THEN Constructed(id, c)
    ELSE IF kind = "egg" THEN LaidEgg(id, c)
    ELSE IF kind = "weak" THEN Weak(id, c)
    ELSE Elder(id, c)

StartTwo ==
    {<<Made(k[1], 1, c1), Made(k[2], 2, c2)>> :
        k \in PairKinds, c1 \in Interior, c2 \in Interior}

\* three new adults: a chain around the corner cell, or two stacked on one
\* cell beside the third
TrioPlaces ==
    {<<<<1, 0>>, <<0, 0>>, <<0, 1>>>>, <<<<0, 0>>, <<1, 0>>, <<0, 1>>>>,
     <<<<0, 1>>, <<1, 0>>, <<0, 0>>>>, <<<<0, 0>>, <<1, 0>>, <<1, 0>>>>,
     <<<<1, 0>>, <<1, 0>>, <<0, 0>>>>, <<<<0, 0>>, <<0, 0>>, <<0, 1>>>>}

StartThree ==
    {<<Constructed(1, p[1]), Constructed(2, p[2]), Constructed(3, p[3])>> :
        p \in TrioPlaces}

\* nothing outside the loop has happened: seedGenome = null (line 95), no
\* ant selected (line 659)
NoAct == [action |-> "none", eaten |-> {}]
NoArgs == [fn |-> "none"]
NoResult == [done |-> FALSE]
\* null, for a network and for an ant: identities start at 1
NullGenome == [nn |-> 0, store |-> 0]
NullAnt == [id |-> 0, nn |-> 0, store |-> 0]
NoClick == [handler |-> "none", adopted |-> {}]
OffLoopIdle ==
    /\ seedGenome = NullGenome
    /\ currentSelectedAnt = NullAnt
    /\ clicked = NoClick
    /\ acted = NoAct
    /\ args = NoArgs
    /\ result = NoResult

\* the loop is between two iterations and no tick is under way
LoopIdle ==
    /\ pc = "idle"
    /\ idx = 0
    /\ matedAnts = {}
    /\ nextId = Len(ants) + 1
    /\ startAnts = <<>>
    /\ jitter = EmptyMap
    /\ processed = {}
    /\ pairs = <<>>
    /\ preCull = <<>>
    /\ born = {}
    /\ changes = {}
    /\ call = NoCall
    /\ firstRet = EmptyMap
    /\ isPaused = FALSE

InitCommon == LoopIdle /\ OffLoopIdle

Init ==
    /\ \/ \* new Simulation() with antDensity 1: nothing generated yet
          /\ ants \in {<<Constructed(1, c)>> : c \in Interior}
          /\ grid = EmptyMap
          /\ maxAnts \in {1, MaxCap}
          /\ tickCount \in {0, foodSpawnInterval - 1}
          /\ framesLeft = MaxFrames
       \/ /\ ants \in StartAged
          /\ grid \in FullGrids
          /\ maxAnts = MaxCap
          /\ tickCount = 0
          /\ framesLeft = MaxFrames
       \/ /\ ants \in StartTwo
          /\ grid \in CrowdGrids
          /\ maxAnts \in {1, MaxCap}
          /\ tickCount = 0
          /\ framesLeft = MaxFramesCrowd
       \/ /\ ants \in StartThree
          /\ grid \in CrowdGrids
          /\ maxAnts = MaxCap
          /\ tickCount = 0
          /\ framesLeft = 1
    /\ InitCommon

Next ==
    \/ BeginTick
    \/ Decide
    \/ Mate
    \/ Act
    \/ Cull
    \/ AfterUpdate
    \/ SkipFrame
    \/ Render
    \/ TogglePause

Spec == Init /\ [][Next]_vars

(***************************************************************************)
(* Properties of update() and the loop (specification Spec)                *)
(***************************************************************************)
\* C1: when update() has returned, every organism left in the live set has
\* health > 0
C1_SurvivorsHealthy ==
    pc = "returned" => \A i \in 1..Len(ants) : ants[i].health > 0

\* update() has returned, the cull met an ant with health <= 0 and some ant
\* survived
C1_Witness ==
    /\ pc = "returned"
    /\ Len(ants) >= 1
    /\ \E i \in 1..Len(preCull) : preCull[i].health <= 0

\* C2: once a tick has returned, and until the next one begins, no organism
\* of the live set has stage old: each is an egg or an adult
C2_NoOldAtBoundary ==
    pc \in {"returned", "render", "idle"} =>
        \A i \in 1..Len(ants) : ants[i].stage \in {"egg", "adult"}

\* update() has returned from a tick in which an ant was marked old
C2_Witness ==
    /\ pc = "returned"
    /\ \E i \in 1..Len(preCull) : preCull[i].stage = "old"

\* the ants of startAnts that are adults of age antLifespan - 1
C3_Due == {i \in 1..Len(startAnts) : /\ startAnts[i].stage = "adult"
                                     /\ startAnts[i].age = antLifespan - 1}

\* C3 as stated: an adult of age antLifespan - 1 at the start of a tick is
\* old when phase 3 ends and is not in the live set when the tick returns,
\* whatever the jitter
C3_RemovedSameTick ==
    pc = "returned" =>
        \A i \in C3_Due :
            /\ AntOf(preCull, startAnts[i].id).stage = "old"
            /\ startAnts[i].id \notin Ids(ants)

\* C3 amended: an adult of age antLifespan - 1 at the start of a tick draws a
\* jitter; with a jitter <= 0 it is old when phase 3 ends and is removed by
\* the end of the tick; with a jitter > 0 it is still an adult when phase 3
\* ends and stays in the live set exactly when its health is > 0
C3_RemovedUnlessPositiveJitter ==
    pc = "returned" =>
        \A i \in C3_Due :
            LET id == startAnts[i].id
                p == AntOf(preCull, id)
            IN /\ id \in DOMAIN jitter
               /\ jitter[id] <= 0 => (p.stage = "old" /\ id \notin Ids(ants))
               /\ jitter[id] > 0 =>
                     /\ p.stage = "adult"
                     /\ (id \in Ids(ants)) <=> (p.health > 0)

\* a tick has returned in which such an adult drew a jitter <= 0 and was
\* removed
C3_Witness ==
    /\ pc = "returned"
    /\ \E i \in C3_Due : /\ startAnts[i].id \in DOMAIN jitter
                         /\ jitter[startAnts[i].id] <= 0
                         /\ startAnts[i].id \notin Ids(ants)

\* orthogonally adjacent cells
Adjacent(a, b) ==
    \/ a.x = b.x /\ (a.y = b.y + 1 \/ b.y = a.y + 1)
    \/ a.y = b.y /\ (a.x = b.x + 1 \/ b.x = a.x + 1)

\* the tick that has returned began with exactly two adults on adjacent
\* cells, below maxAnts, and both proposed mate in phase 1
C4_Case ==
    /\ pc = "returned"
    /\ Len(startAnts) = 2
    /\ startAnts[1].stage = "adult" /\ startAnts[2].stage = "adult"
    /\ Adjacent(startAnts[1], startAnts[2])
    /\ Len(startAnts) < maxAnts
    /\ preCull[1].nextAction = "mate" /\ preCull[2].nextAction = "mate"

\* one pairing of the two, one new organism, and no processAction of a parent
C4_OneEggNoAction ==
    /\ Len(pairs) = 1
    /\ {pairs[1][1], pairs[1][2]} = Ids(startAnts)
    /\ Len(preCull) = 3
    /\ preCull[3].id \notin Ids(startAnts)
    /\ preCull[3].stage = "egg"
    /\ processed \cap Ids(startAnts) = {}

\* the parents the cull removes
C4_LostParents ==
    {i \in 1..2 : preCull[i].health <= 0 \/ preCull[i].stage = "old"}

\* C4 as stated: in that case one egg is created, neither parent executes
\* processAction, and the population after the tick is one larger than before
C4_PopulationPlusOne ==
    C4_Case => C4_OneEggNoAction /\ Len(ants) = Len(startAnts) + 1

\* C4 amended: in that case one egg is created and neither parent executes
\* processAction; the egg is in the live set after the tick, and the
\* population is one larger than before less the parents that the cull
\* removes (health <= 0 after the upkeep, or turned old), so it is exactly
\* one larger when both parents survive
C4_PopulationPlusOneLessLost ==
    C4_Case =>
        /\ C4_OneEggNoAction
        /\ preCull[3].id \in Ids(ants)
        /\ Len(ants) = Len(startAnts) + 1 - Cardinality(C4_LostParents)

\* the case happened and both parents survived: three organisms
C4_Witness == C4_Case /\ C4_LostParents = {} /\ Len(ants) = 3

\* C5: within a tick no organism takes part in more than one pairing, as
\* initiator or as partner
C5_MatingExclusive ==
    \A i, j \in 1..Len(pairs) :
        /\ pairs[i][1] # pairs[i][2]
        /\ i # j => {pairs[i][1], pairs[i][2]} \cap {pairs[j][1], pairs[j][2]} = {}

\* phase 2 is over with one pairing, and an unpaired adult that proposed mate
\* stands beside a paired one that would have been its partner
C5_Witness ==
    /\ pc = "act"
    /\ Len(pairs) = 1
    /\ \E i \in 1..Len(ants) :
          /\ MayInitiate(ants[i], matedAnts)
          /\ FindPartner(ants, matedAnts, ants[i]) = 0
          /\ FindPartner(ants, {}, ants[i]) # 0

\* C6: at every point of a tick the live population is at most
\* max(maxAnts, population at the start of the tick): an offspring is
\* inserted only below maxAnts
C6_PopulationCap ==
    pc \in {"decide", "mate", "act", "cull", "returned"} =>
        Len(ants) <= Max(maxAnts, Len(startAnts))

\* phase 3 is over, reproduction has filled the population up to maxAnts,
\* and an adult that chose asexual or mate was refused for it
C6_Witness ==
    /\ pc = "cull"
    /\ Len(ants) = maxAnts
    /\ Len(ants) > Len(startAnts)
    /\ \E i \in 1..Len(startAnts) :
          /\ ants[i].nextAction \in {"asexual", "mate"}
          /\ ants[i].id \notin matedAnts
          /\ startAnts[i].stage = "adult"

\* C8 as stated: a generated coordinate is reclassified only by eat, from
\* food to empty
C8_OnlyEatReclassifies ==
    \A ch \in changes : ch.from = "food" /\ ch.to = "empty" /\ ch.by = "eat"

\* C8 amended: a generated coordinate is reclassified only by eat, from food
\* to empty, or by a food-spawn event, which sets it to food whatever it
\* was: terrain and empty cells stay as they are over getCell queries, ticks
\* and renders, but not over a food spawn
C8_OnlyEatOrSpawnReclassifies ==
    \A ch \in changes :
        \/ ch.from = "food" /\ ch.to = "empty" /\ ch.by = "eat"
        \/ ch.by = "spawn" /\ ch.to = "food" /\ ch.c \in SpawnCells

\* an ant has just eaten the food of its cell
C8_Witness ==
    \E ch \in changes : ch.by = "eat" /\ ch.from = "food" /\ ch.to = "empty"

\* C13: in every state no live organism stands on a coordinate that is
\* classified terrain
C13_NoAntOnTerrain ==
    \A i \in 1..Len(ants) :
        <<ants[i].x, ants[i].y>> \in DOMAIN grid =>
            grid[<<ants[i].x, ants[i].y>>] # "terrain"

\* C14: the phase-3 step of an organism that is an egg executes no action:
\* its position is unchanged, no other organism changes, no cell changes and
\* no offspring is added
C14_EggsDoNotAct ==
    [][pc = "act" /\ ants[idx].stage = "egg" =>
          /\ Len(ants') = Len(ants)
          /\ ants'[idx].x = ants[idx].x
          /\ ants'[idx].y = ants[idx].y
          /\ \A j \in (1..Len(ants)) \ {idx} : ants'[j] = ants[j]
          /\ grid' = grid]_vars

\* phase 3 has processed an egg that was there when the tick began and an
\* egg laid during the tick
C14_Witness ==
    /\ pc \in {"act", "cull"}
    /\ \E i \in 1..Len(startAnts) : /\ startAnts[i].stage = "egg"
                                   /\ ants[i].id \in processed
    /\ \E i \in (Len(startAnts) + 1)..Len(ants) : /\ ants[i].stage = "egg"
                                                 /\ ants[i].id \in processed

\* C17: an offspring of the current tick holds a NeuralNetwork object other
\* than each parent's and shares no weights or biases storage with a parent
C17_NoSharedGenome ==
    \A b \in born : \A q \in b.parents :
        (b.child \in Ids(ants) /\ q \in Ids(ants)) =>
            /\ AntOf(ants, b.child).nn # AntOf(ants, q).nn
            /\ AntOf(ants, b.child).store # AntOf(ants, q).store

\* C19: while isPaused is set no step changes the organisms or the tick
\* counter, update() is not entered, and no generated cell is reclassified
\* (no food spawn)
C19_PausedFreezes ==
    [][isPaused =>
          /\ ants' = ants
          /\ tickCount' = tickCount
          /\ pc' \notin {"decide", "mate", "act", "cull", "returned"}
          /\ \A c \in DOMAIN grid : c \in DOMAIN grid' /\ grid'[c] = grid[c]]_vars

\* after a tick has run, the loop has gone through an iteration while paused
\* and is about to render
C19_Witness ==
    /\ isPaused
    /\ pc = "render"
    /\ tickCount >= 1
    /\ Len(ants) >= 1

\* C21: the phase-3 step of an organism whose proposed action is mate, paired
\* or not, runs no processAction: its position is still the one it had when
\* the tick began, no other organism changes (nothing is attacked), no cell
\* changes (nothing is eaten) and no offspring is added
C21_MateProposersDoNotAct ==
    [][pc = "act" /\ ants[idx].nextAction = "mate" =>
          /\ processed' = processed
          /\ Len(ants') = Len(ants)
          /\ ants'[idx].x = startAnts[idx].x
          /\ ants'[idx].y = startAnts[idx].y
          /\ \A j \in (1..Len(ants)) \ {idx} : ants'[j] = ants[j]
          /\ grid' = grid]_vars

\* phase 3 has ended in a tick in which one organism that proposed mate was
\* paired and another that proposed mate was not
C21_Witness ==
    /\ pc = "cull"
    /\ \E i, j \in 1..Len(ants) :
          /\ ants[i].nextAction = "mate" /\ ants[i].id \in matedAnts
          /\ ants[j].nextAction = "mate" /\ ants[j].id \notin matedAnts

\* C23: while the mating phase runs and when it has ended, each pairing so far
\* has added exactly one organism, an egg of health 50 at the coordinates the
\* initiating organism had, and every organism of the tick start, parents
\* included, still has its position and its health
C23_OneEggPerPairing ==
    (pc = "mate" \/ (pc = "act" /\ idx = 1)) =>
        /\ Len(ants) = Len(startAnts) + Len(pairs)
        /\ \A k \in 1..Len(pairs) :
              LET egg == ants[Len(startAnts) + k]
                  initiator == AntOf(startAnts, pairs[k][1])
              IN /\ egg.id \notin Ids(startAnts)
                 /\ egg.stage = "egg"
                 /\ egg.stageAge = 0
                 /\ egg.health = H(50)
                 /\ egg.x = initiator.x /\ egg.y = initiator.y
        /\ \A i \in 1..Len(startAnts) :
              /\ ants[i].id = startAnts[i].id
              /\ ants[i].x = startAnts[i].x /\ ants[i].y = startAnts[i].y
              /\ ants[i].health = startAnts[i].health

\* the mating phase has ended with a pairing whose parents had less than full
\* health
C23_Witness ==
    /\ pc = "act" /\ idx = 1
    /\ Len(pairs) = 1
    /\ \E i \in 1..Len(startAnts) :
          startAnts[i].id = pairs[1][2] /\ startAnts[i].health < H(100)

\* an organism without its proposed action
C24_Rest(a) == [a EXCEPT !.nextAction = "any"]

\* C24: while phase 1 runs and when it has ended, the live set is the one of
\* the tick start with nothing but nextAction changed, and no generated cell
\* was reclassified by the last decision; until the mating phase has ended
\* every organism of the tick start still has its position
C24_DecideOnlyProposes ==
    /\ (pc = "decide" \/ (pc = "mate" /\ idx = 1)) =>
          /\ changes = {}
          /\ Len(ants) = Len(startAnts)
          /\ \A i \in 1..Len(ants) : C24_Rest(ants[i]) = C24_Rest(startAnts[i])
    /\ (pc = "mate" \/ (pc = "act" /\ idx = 1)) =>
          \A i \in 1..Len(startAnts) :
              ants[i].x = startAnts[i].x /\ ants[i].y = startAnts[i].y

\* phase 1 of the first tick of a new simulation has ended: the organism has
\* a proposed action and its nine vision cells are the generated cells
C24_Witness ==
    /\ pc = "mate" /\ idx = 1
    /\ Cardinality(DOMAIN grid) = 9
    /\ startAnts[1].nextAction = "undefined"
    /\ ants[1].nextAction \in {"up", "eat", "mate"}

\* the organism at place i of the live set as it entered the tick: as it was
\* when the tick began, or as it was laid during the tick
BeforeTick(as, i) ==
    IF i <= Len(startAnts) THEN startAnts[i]
    ELSE NewEgg(as[i].id, as[i].x, as[i].y)

\* some organism executed attack in the tick
SomeAttack(as) ==
    \E i \in 1..Len(as) : as[i].nextAction = "attack" /\ as[i].id \in processed

\* C25: when phase 3 has ended, every organism of the live set, laid in this
\* tick or older, mated or not, has aged by exactly 1 in age and in stageAge;
\* and where nothing but the upkeep touches its health (nobody attacked, its
\* own action is none of eat, sleep, attack and asexual, and it did not
\* hatch) its health is exactly one point lower
C25_AgedAndChargedOnce ==
    pc = "cull" =>
        \A i \in 1..Len(ants) :
            LET was == BeforeTick(ants, i)
                now == ants[i]
            IN /\ now.id = was.id
               /\ now.age = was.age + 1
               /\ now.stageAge = was.stageAge + 1
               /\ (/\ ~SomeAttack(ants)
                   /\ now.nextAction \notin {"eat", "sleep", "attack", "asexual"}
                   /\ ~(was.stage = "egg" /\ now.stage = "adult")) =>
                      now.health = was.health - H(1)

\* phase 3 has ended in a tick without attack in which two organisms were
\* paired and a third proposed mate in vain, and the egg of the pairing has
\* paid its upkeep
C25_Witness ==
    /\ pc = "cull"
    /\ ~SomeAttack(ants)
    /\ Len(pairs) = 1
    /\ \E j \in 1..Len(startAnts) :
          ants[j].nextAction = "mate" /\ ants[j].id \notin matedAnts
    /\ \E e \in (Len(startAnts) + 1)..Len(ants) : ants[e].health = H(49)

\* C26: when the tick has returned, every egg laid in it, by a pairing or by
\* asexual reproduction, went through phase 3 with age 1 and stageAge 1, and
\* if no organism executed attack in the tick it has health 49 and is in the
\* live set
C26_EggAgedInBirthTick ==
    pc = "returned" =>
        \A b \in born :
            LET egg == AntOf(preCull, b.child)
            IN /\ egg.age = 1
               /\ egg.stageAge = 1
               /\ ~SomeAttack(preCull) =>
                     /\ egg.health = H(49)
                     /\ b.child \in Ids(ants)
                     /\ AntOf(ants, b.child) = egg

\* a tick without attack has returned in which one egg was laid by a pairing
\* and one by asexual reproduction
C26_Witness ==
    /\ pc = "returned"
    /\ ~SomeAttack(preCull)
    /\ \E b1, b2 \in born : b1.by = "mate" /\ b2.by = "asexual"

\* the stage changes a tick may make
C27_Steps ==
    {<<"egg", "egg">>, <<"egg", "adult">>, <<"adult", "adult">>,
     <<"adult", "old">>}

\* C27: between two ticks every egg has stageAge below eggToAdultTicks; when
\* a tick has returned, an egg of the tick start is an adult exactly if its
\* stageAge reached eggToAdultTicks in the tick and is an egg otherwise, a
\* hatched egg that nobody attacked has health maxAntHealth, an egg laid in
\* the tick is still an egg, and every organism of the tick start kept its
\* stage or went from egg to adult or from adult to old
C27_HatchOnTimeAndForward ==
    /\ pc \in {"returned", "render", "idle"} =>
          \A i \in 1..Len(ants) :
              ants[i].stage = "egg" => ants[i].stageAge < eggToAdultTicks
    /\ pc = "returned" =>
          /\ \A i \in 1..Len(startAnts) :
                LET was == startAnts[i]
                    now == preCull[i]
                IN /\ <<was.stage, now.stage>> \in C27_Steps
                   /\ was.stage = "egg" =>
                         /\ (now.stage = "adult") <=>
                                (was.stageAge + 1 >= eggToAdultTicks)
                         /\ (now.stage = "adult" /\ ~SomeAttack(preCull)) =>
                                now.health = H(maxAntHealth)
          /\ \A i \in (Len(startAnts) + 1)..Len(preCull) :
                preCull[i].stage = "egg"

\* a tick without attack has returned in which an egg of the tick start
\* hatched with full health and an egg laid in the tick stayed an egg
C27_Witness ==
    /\ pc = "returned"
    /\ ~SomeAttack(preCull)
    /\ \E i \in 1..Len(startAnts) :
          /\ startAnts[i].stage = "egg"
          /\ preCull[i].stage = "adult"
          /\ preCull[i].stageAge = eggToAdultTicks
          /\ startAnts[i].id \in Ids(ants)
    /\ Len(preCull) > Len(startAnts)

\* C28: an organism of the live set that entered its stage in the tick that
\* has just returned (it hatched in that tick) has a stageAge of 0, or of 1
\* if the tick of the transition is counted
C28_StageAgeSinceTransition ==
    pc = "returned" =>
        \A i \in 1..Len(startAnts) :
            (/\ startAnts[i].stage = "egg"
             /\ startAnts[i].id \in Ids(ants)
             /\ AntOf(ants, startAnts[i].id).stage = "adult") =>
                AntOf(ants, startAnts[i].id).stageAge \in {0, 1}

\* the most ticks an organism stays in the live set
C29_Longest == Max(antLifespan + 1, eggToAdultTicks)

\* C29: between two ticks every organism of the live set has lived through
\* fewer than max(antLifespan + 1, eggToAdultTicks) ticks, so that it is
\* removed by the end of the tick in which its age reaches that number
C29_RemovedWithinLifespan ==
    pc \in {"returned", "render", "idle"} =>
        \A i \in 1..Len(ants) : ants[i].age < C29_Longest

\* a tick has returned that an adult began at age antLifespan, having drawn a
\* positive jitter the tick before; it ate or slept, had health left, and is
\* removed
C29_Witness ==
    /\ pc = "returned"
    /\ \E i \in 1..Len(startAnts) :
          /\ startAnts[i].age = antLifespan
          /\ preCull[i].nextAction \in {"eat", "sleep"}
          /\ preCull[i].health > 0
          /\ preCull[i].age = C29_Longest
          /\ startAnts[i].id \notin Ids(ants)

\* C30: in every state, in the middle of a tick too, every organism of the
\* live set has health <= maxAntHealth
C30_HealthCapped ==
    \A i \in 1..Len(ants) : ants[i].health <= H(maxAntHealth)

\* in phase 3 an adult of full health has attacked an egg, which took the 50
\* points of damage and has its own step still before it
C30_Witness ==
    /\ pc = "act"
    /\ \E i, e \in 1..Len(startAnts) :
          /\ startAnts[i].health = H(maxAntHealth)
          /\ ants[i].nextAction = "attack"
          /\ ants[i].id \in processed
          /\ ants[i].health = H(maxAntHealth) - H(1)
          /\ ants[e].stage = "egg"
          /\ ants[e].health = startAnts[e].health - H(50)

\* C33: from the start of a tick until its cull the live set only grows: the
\* organisms of the tick start keep their places and each egg laid is added;
\* when phase 3 has ended every organism that did not propose mate has run
\* its action, whatever its health was by then; and the cull removes exactly
\* the organisms that have health <= 0 or stage old when phase 3 has ended
C33_RemovalOnlyInCull ==
    /\ pc \in {"decide", "mate", "act", "cull"} =>
          /\ Len(ants) = Len(startAnts) + Cardinality(born)
          /\ \A i \in 1..Len(startAnts) : ants[i].id = startAnts[i].id
    /\ pc = "cull" =>
          \A i \in 1..Len(ants) :
              ants[i].nextAction # "mate" => ants[i].id \in processed
    /\ pc = "returned" =>
          \A i \in 1..Len(preCull) :
              (preCull[i].id \in Ids(ants)) <=>
                  (preCull[i].health > 0 /\ preCull[i].stage # "old")

\* a tick has returned in which an organism of health 1 was attacked by an
\* organism processed before it, then, at health -9, still moved to another
\* cell, paid its upkeep and was removed by the cull
C33_Witness ==
    /\ pc = "returned"
    /\ \E j, i \in 1..Len(startAnts) :
          /\ j < i
          /\ preCull[j].nextAction = "attack"
          /\ startAnts[i].health = H(1)
          /\ preCull[i].nextAction \in Movement
          /\ <<preCull[i].x, preCull[i].y>> # <<startAnts[i].x, startAnts[i].y>>
          /\ preCull[i].health = H(1) - H(10) - H(1)
          /\ preCull[i].id \notin Ids(ants)

\* the cell overlaps the viewport, its right and bottom edge included
C35_InViewport(c) ==
    /\ c[1] * cellSize <= cameraX + canvasWidth
    /\ (c[1] + 1) * cellSize > cameraX
    /\ c[2] * cellSize <= cameraY + canvasHeight
    /\ (c[2] + 1) * cellSize > cameraY

\* the coordinates that a step makes food: not food, or not generated, before
C35_NewFood ==
    {c \in DOMAIN grid' :
        grid'[c] = "food" /\ (c \notin DOMAIN grid \/ grid[c] # "food")}

\* the coordinates whose entry a step writes or changes
C35_Written ==
    {c \in DOMAIN grid' : c \notin DOMAIN grid \/ grid'[c] # grid[c]}

StackedPlaces == <<<<0, 0>>, <<0, 0>>, <<1, 0>>, <<1, 0>>>>

InitStacked ==
    /\ ants = [i \in 1..4 |-> Constructed(i, StackedPlaces[i])]
    /\ grid = FullGrid([c \in Interior |-> "empty"])
    /\ maxAnts = MaxCap
    /\ tickCount = 0
    /\ framesLeft = 1
    /\ InitCommon

SpecStacked == InitStacked /\ [][Next]_vars

\* C22: when the mating phase has ended with the population below maxAnts,
\* no adult that proposed mate is left unpaired beside an unpaired adult
\* that proposed mate, on whatever place of its cell that neighbour stands
C22_NeighbourProposersPaired ==
    (pc = "act" /\ idx = 1 /\ Len(ants) < maxAnts) =>
        \A i, j \in 1..Len(ants) :
            (/\ ants[i].nextAction = "mate" /\ ants[i].stage = "adult"
             /\ ants[j].nextAction = "mate" /\ ants[j].stage = "adult"
             /\ Adjacent(ants[i], ants[j])
             /\ ants[j].id \notin matedAnts) => ants[i].id \in matedAnts


(***************************************************************************)
(* The grid methods called directly, one call per step, on a fresh         *)
(* simulation: getCell, clearCell and the grid.set of spawnFood.           *)
(***************************************************************************)
\* what the grid holds for c: "none" for a coordinate not generated yet
Classification(g, c) == IF c \in DOMAIN g THEN g[c] ELSE "none"

Forget(f, c) == [k \in DOMAIN f \ {c} |-> f[k]]

ApiFrame ==
    UNCHANGED <<isPaused, born, offLoop,
                ants, maxAnts, tickCount, pc, idx, matedAnts, nextId, framesLeft,
                startAnts, jitter, processed, pairs, preCull>>

CallGetCell ==
    \E c \in Interior : \E roll \in RollsFor(grid, c) :
        LET got == getCell(grid, c, roll) IN
        /\ grid' = got.grid
        /\ call' = [op |-> "getCell", c |-> c,
                    before |-> Classification(grid, c), value |-> got.value,
                    drew |-> got.drew, again |-> c \in DOMAIN firstRet,
                    changed |-> got.grid # grid]
        /\ firstRet' = IF c \in DOMAIN firstRet THEN firstRet
                       ELSE (c :> got.value) @@ firstRet
        /\ changes' = Diff(grid, grid', "getCell")
        /\ ApiFrame

CallClearCell ==
    \E c \in Interior :
        /\ grid' = clearCell(grid, c)
        /\ call' = [op |-> "clearCell", c |-> c,
                    before |-> Classification(grid, c), value |-> "none",
                    drew |-> FALSE, again |-> FALSE,
                    changed |-> clearCell(grid, c) # grid]
        /\ firstRet' = Forget(firstRet, c)
        /\ changes' = Diff(grid, grid', "clearCell")
        /\ ApiFrame

CallSetFood ==
    \E c \in SpawnCells :
        /\ grid' = setFood(grid, c)
        /\ call' = [op |-> "setFood", c |-> c,
                    before |-> Classification(grid, c), value |-> "none",
                    drew |-> FALSE, again |-> FALSE,
                    changed |-> setFood(grid, c) # grid]
        /\ firstRet' = Forget(firstRet, c)
        /\ changes' = Diff(grid, grid', "setFood")
        /\ ApiFrame

\* new Simulation() with an empty population: this.grid = new Map()
InitGrid ==
    /\ ants = <<>>
    /\ grid = EmptyMap
    /\ maxAnts = MaxCap
    /\ tickCount = 0
    /\ framesLeft = 0
    /\ InitCommon

NextGrid == CallGetCell \/ CallClearCell \/ CallSetFood

SpecGrid == InitGrid /\ [][NextGrid]_vars

(***************************************************************************)
(* Properties of the grid methods (specification SpecGrid)                 *)
(***************************************************************************)
\* C9: a getCell on a coordinate that getCell has answered before, with no
\* clearCell or food spawn on it since, returns what the first call returned
\* and draws no random value
C9_GetCellIdempotent ==
    call.op = "getCell" /\ call.again =>
        /\ call.value = firstRet[call.c]
        /\ ~call.drew
        /\ ~call.changed

\* getCell has just answered for a coordinate a second time
C9_Witness == call.op = "getCell" /\ call.again /\ call.value = "terrain"

\* C10: clearCell on a coordinate that is terrain, empty or not generated
\* leaves the grid unchanged
C10_ClearCellOnlyFood ==
    call.op = "clearCell" /\ call.before # "food" => ~call.changed

(***************************************************************************)
(* Direct calls of Ant.processAction: any organism of the population is    *)
(* handed any action name, as update() hands it ant.nextAction.            *)
(***************************************************************************)
\* what processAction can be handed: the nine actions, the "none" of an egg
\* and the undefined of an organism that never decided
ActionNames == {AdultActions[k] : k \in 1..Len(AdultActions)} \cup {"none", "undefined"}

\* the other organisms, as processAction left them
Others(as, i) == [j \in (1..Len(as)) \ {i} |-> as[j]]

CallProcessAction ==
    /\ framesLeft > 0
    /\ framesLeft' = framesLeft - 1
    /\ \E i \in 1..Len(ants) : \E action \in ActionNames :
       \E roll \in (IF action \in Movement \cup {"eat"}
                    THEN RollsFor(grid, RolledCell(ants[i], action))
                    ELSE {0}) :
          LET r == processAction(ants, grid, maxAnts, i, action, roll, nextId)
              c == RolledCell(ants[i], action)
              asked == action \in Movement \cup {"eat"}
          IN /\ ants' = r.ants
             /\ grid' = r.grid
             /\ nextId' = IF Len(r.ants) > Len(ants) THEN nextId + 1 ELSE nextId
             /\ changes' = Diff(grid, r.grid, action)
             /\ acted' =
                   [action |-> action,
                    \* the place of the organism in the array, and the
                    \* array and the population cap as the call found them
                    i |-> i,
                    before |-> ants,
                    gridSame |-> r.grid = grid,
                    was |-> ants[i],
                    now |-> r.ants[i],
                    \* the coordinate getCell was asked for, what it
                    \* returned and what the grid holds there afterwards
                    c |-> c,
                    cell |-> IF asked THEN getCell(grid, c, roll).value
                             ELSE "none",
                    cellAfter |-> Classification(r.grid, c),
                    occupied |-> \E j \in (1..Len(ants)) \ {i} :
                                    <<ants[j].x, ants[j].y>> = c,
                    \* the grid but for coordinate c, and the other
                    \* organisms, are as they were
                    restSame |->
                        /\ Forget(r.grid, c) = Forget(grid, c)
                        /\ Others(r.ants, i) = Others(ants, i),
                    \* the coordinates an eat of this run has cleared
                    again |-> c \in acted.eaten,
                    eaten |-> IF action = "eat" /\ r.grid # grid
                                 /\ Classification(r.grid, c) = "empty"
                                 /\ getCell(grid, c, roll).value = "food"
                              THEN acted.eaten \cup {c} ELSE acted.eaten]
    /\ UNCHANGED <<maxAnts, tickCount, pc, idx, matedAnts, isPaused, startAnts,
                   jitter, processed, pairs, preCull, born, call, firstRet,
                   seedGenome, currentSelectedAnt, clicked, args, result>>

NextAct == CallProcessAction

SpecAct == Init /\ [][NextAct]_vars

\* C11 as stated: an eat on a cell classified food strictly increases the
\* health of the organism and leaves the cell empty; an eat on a cell an
\* earlier eat has emptied changes neither health nor grid
C11_EatStrictlyIncreases ==
    acted.action = "eat" =>
        /\ acted.cell = "food" =>
              acted.now.health > acted.was.health /\ acted.cellAfter = "empty"
        /\ acted.again =>
              /\ acted.cell = "empty" /\ acted.cellAfter = "empty"
              /\ acted.now = acted.was
              /\ acted.restSame

\* C11 amended: an eat on a cell classified food sets health to
\* min(100, health + 20), which is a strict increase exactly when health was
\* below 100 and no change at 100, and leaves the cell empty, touching no
\* other cell and no other organism; an eat on a cell an earlier eat has
\* emptied changes neither health nor grid
C11_EatRaisesToCap ==
    acted.action = "eat" =>
        /\ acted.cell = "food" =>
              /\ acted.now = [acted.was EXCEPT
                                !.health = Min(H(100), acted.was.health + H(20))]
              /\ (acted.now.health > acted.was.health) <=>
                     (acted.was.health < H(100))
              /\ acted.cellAfter = "empty"
              /\ acted.restSame
        /\ acted.again =>
              /\ acted.cell = "empty" /\ acted.cellAfter = "empty"
              /\ acted.now = acted.was
              /\ acted.restSame

\* an organism has eaten again on a cell that an earlier eat emptied
C11_Witness ==
    /\ acted.action = "eat"
    /\ acted.again
    /\ acted.cell = "empty"

\* the coordinate a movement action aims at
C12_Aim(a, action) ==
    IF action = "up" THEN <<a.x, a.y - 1>>
    ELSE IF action = "down" THEN <<a.x, a.y + 1>>
    ELSE IF action = "left" THEN <<a.x - 1, a.y>>
    ELSE <<a.x + 1, a.y>>

\* C12: a movement action whose destination cell is terrain leaves the
\* position unchanged; with any other destination cell the position becomes
\* the destination, whether or not another organism stands there; nothing
\* else of the organism changes
C12_MovementRule ==
    acted.action \in {"up", "down", "left", "right"} =>
        LET aim == C12_Aim(acted.was, acted.action)
        IN /\ acted.c = aim
           /\ acted.cell = "terrain" => acted.now = acted.was
           /\ acted.cell # "terrain" =>
                 acted.now = [acted.was EXCEPT !.x = aim[1], !.y = aim[2]]

\* an organism has moved onto a cell where another organism stands
C12_Witness ==
    /\ acted.action \in {"up", "down", "left", "right"}
    /\ acted.occupied
    /\ acted.cell # "terrain"
    /\ <<acted.now.x, acted.now.y>> = acted.c
    /\ <<acted.was.x, acted.was.y>> # acted.c

\* the four neighbour cells in the order attack looks at them
C31_Scan(a) ==
    <<<<a.x, a.y - 1>>, <<a.x, a.y + 1>>, <<a.x - 1, a.y>>, <<a.x + 1, a.y>>>>

\* the places in the array of the organisms that stand on cell c
C31_On(as, c) == {j \in 1..Len(as) : <<as[j].x, as[j].y>> = c}

\* the neighbour cells of a, by their place in the scan, that are occupied
C31_Occupied(as, a) == {k \in 1..4 : C31_On(as, C31_Scan(a)[k]) # {}}

\* the first organism of the array on the first occupied cell of the scan;
\* 0 when no neighbour cell is occupied
C31_Target(as, a) ==
    IF C31_Occupied(as, a) = {} THEN 0
    ELSE LET k == CHOOSE k1 \in C31_Occupied(as, a) :
                      \A k2 \in C31_Occupied(as, a) : k1 <= k2
             on == C31_On(as, C31_Scan(a)[k])
         IN CHOOSE j1 \in on : \A j2 \in on : j1 <= j2

\* C31: an attack changes at most one other organism, the first of the array
\* on the first occupied cell in the order up, down, left, right: an egg
\* loses 50 and the attacker gains 20 up to maxAntHealth, any other target
\* loses 10 and the attacker is unchanged; with no occupied neighbour cell
\* nothing changes; the grid is never touched
C31_AttackOneTarget ==
    acted.action = "attack" =>
        LET b == acted.before
            i == acted.i
            t == C31_Target(b, b[i])
        IN /\ acted.gridSame
           /\ t # i
           /\ ants = IF t = 0 THEN b
                     ELSE IF b[t].stage = "egg"
                     THEN [b EXCEPT ![t].health = @ - H(50),
                                    ![i].health = Min(H(maxAntHealth), @ + H(20))]
                     ELSE [b EXCEPT ![t].health = @ - H(10)]

\* an organism with two occupied neighbour cells has attacked, and the
\* organism on the earlier cell of the scan lost 10
C31_Witness ==
    /\ acted.action = "attack"
    /\ Cardinality(C31_Occupied(acted.before, acted.was)) >= 2
    /\ \E t \in 1..Len(ants) : ants[t].health = acted.before[t].health - H(10)

\* C32: asexual with the population below maxAnts halves the health of the
\* actor, changes nothing else of it and no other organism, and appends
\* exactly one organism: an egg at the actor's coordinates with health 50
\* whose weights and biases are the actor's (so equal in value); with the
\* population at or above maxAnts the live set is unchanged; the grid is
\* never touched
C32_AsexualOrNoOp ==
    acted.action = "asexual" =>
        LET b == acted.before
            i == acted.i
        IN /\ acted.gridSame
           /\ IF Len(b) < maxAnts
              THEN /\ Len(ants) = Len(b) + 1
                   /\ 2 * ants[i].health = b[i].health
                   /\ \A j \in 1..Len(b) :
                         ants[j] = [b[j] EXCEPT !.health = ants[j].health]
                   /\ \A j \in (1..Len(b)) \ {i} : ants[j].health = b[j].health
                   /\ LET egg == ants[Len(ants)]
                      IN /\ egg.id \notin Ids(b)
                         /\ egg.stage = "egg"
                         /\ egg.x = b[i].x /\ egg.y = b[i].y
                         /\ egg.health = H(50)
                         /\ egg.store = b[i].store
              ELSE ants = b

\* an organism of health 1 has reproduced asexually below the cap
C32_Witness ==
    /\ acted.action = "asexual"
    /\ Len(ants) = Len(acted.before) + 1
    /\ acted.was.health = H(1)
    /\ 2 * acted.now.health = H(1)

(***************************************************************************)
(* The functions of NeuralNetwork and the crossover of update(), applied   *)
(* to arguments drawn from bounded sets.  A genome is a record: weights and *)
(* biases, and flat, which tells whether weights is an array of numbers    *)
(* (the URL parameters, split and mapped to Number) or an array of layers  *)
(* that are arrays of numbers (randomWeights, crossover).  Weights are in  *)
(* thousandths, probabilities and the draw of sampleIndex in 1/Scale.      *)
(***************************************************************************)
Scale == 20

\* predict, line 34: weightMatrix.length, the number of neurons of a layer;
\* a number has no length and the loop body never runs
NeuronCount(genome, layer) ==
    IF genome.flat THEN 0 ELSE Len(genome.weights[layer])

\* predict, lines 24-55: the length of the output vector (output starts as
\* the input vector and is replaced once per element of weights)
RECURSIVE PredictFrom(_, _, _)
PredictFrom(genome, layer, outLen) ==
    IF layer > Len(genome.weights) THEN outLen
    ELSE PredictFrom(genome, layer + 1, NeuronCount(genome, layer))

predictLen(genome, inputLen) == PredictFrom(genome, 1, inputLen)

\* predict, lines 35 and 39: weightsForNeuron.length bounds the loop of the
\* dot product; a number has no length and the loop body never runs
RowEntries(weightsForNeuron) ==
    IF weightsForNeuron \in Int THEN 0 ELSE Len(weightsForNeuron)

\* predict, lines 34-41, for the first layer: for each of its neurons, how
\* many entries of the input vector the dot product reads
InputsRead(genome) ==
    [neuron \in 1..NeuronCount(genome, 1) |->
        RowEntries(genome.weights[1][neuron])]

\* softmax of n finite scores: n positive probabilities that sum to 1; the
\* even vector and the vectors with one dominant entry stand for them
Softmaxes(n) ==
    IF n = 0 THEN {<<>>}
    ELSE {[k \in 1..n |-> IF k = h THEN Scale - (n - 1) ELSE 1] : h \in 1..n}
         \cup (IF Scale % n = 0 THEN {[k \in 1..n |-> Scale \div n]} ELSE {})

\* a sampleIndex that tests r before it subtracts the probability
RECURSIVE SampleLate(_, _, _)
SampleLate(probabilities, r, i) ==
    IF i >= Len(probabilities) THEN Len(probabilities) - 1
    ELSE IF r <= 0 THEN i
    ELSE SampleLate(probabilities, r - probabilities[i + 1], i + 1)

sampleIndexLate(probabilities, r) == SampleLate(probabilities, r, 0)

\* sampleIndex, lines 70-76: the loop from index i on, r being what is left
\* of the draw
RECURSIVE SampleFrom(_, _, _)
SampleFrom(probabilities, r, i) ==
    IF i >= Len(probabilities) THEN Len(probabilities) - 1
    ELSE IF r - probabilities[i + 1] <= 0 THEN i
    ELSE SampleFrom(probabilities, r - probabilities[i + 1], i + 1)

\* sampleIndex(probabilities) with r = Math.random()
sampleIndex(probabilities, r) == SampleFrom(probabilities, r, 0)

\* the draws of Math.random(), in 1/Scale: [0, 1)
Draws == 0..(Scale - 1)

\* a crossover that takes every layer from the initiating parent
CombinedMine(mine, theirs) == mine

\* lines 459-470: layer i of the offspring, before the noise, is the
\* initiator's for an even index and the partner's for an odd one
Combined(mine, theirs) ==
    [i \in 1..Len(mine) |-> IF (i - 1) % 2 = 0 THEN mine[i] ELSE theirs[i]]

\* lines 473-478: layer.map(value => value + noise)
Mutated(layers, noise) ==
    [i \in 1..Len(layers) |->
        [k \in 1..Len(layers[i]) |-> layers[i][k] + noise[i][k]]]

\* lines 455-485: the genome of the offspring of ant and partner; the loop
\* runs over the layers of ant's weights for weights and biases alike
crossover(ant, partner, noiseW, noiseB) ==
    LET both == [i \in 1..Len(ant.weights) |-> i]
    IN [flat |-> FALSE,
        weights |-> Mutated(Combined(ant.weights, partner.weights), noiseW),
        biases |-> Mutated(Combined([i \in DOMAIN both |-> ant.biases[i]],
                                    [i \in DOMAIN both |-> partner.biases[i]]),
                           noiseB)]

\* (Math.random() - 0.5) * genomeNoise: the two ends of its range
NoiseDraws == {-(genomeNoise \div 2), (genomeNoise \div 2) - 1}

\* a genome of randomWeights / randomBiases shape with layers of n numbers:
\* layer i holds base + 100 * i (weights) and base + 100 * i + 50 (biases)
LayeredGenome(base, n) ==
    [flat |-> FALSE,
     weights |-> [i \in 1..LayerCount |-> [k \in 1..n |-> base + 100 * i]],
     biases |-> [i \in 1..LayerCount |-> [k \in 1..n |-> base + 100 * i + 50]]]

\* the genome the load handler builds from the URL parameters (lines
\* 751-760): weightsParam.split(",").map(Number), an array of numbers
UrlGenome(n, m) ==
    [flat |-> TRUE, weights |-> [k \in 1..n |-> 500], biases |-> [k \in 1..m |-> 500]]

\* the genomes an organism can hold: built by the Ant constructor or by
\* crossover (layers of OutputLen numbers), or loaded from the URL
HeldGenomes ==
    {LayeredGenome(-900, OutputLen)}
    \cup {UrlGenome(n, m) : n \in 1..MaxUrlLen, m \in 1..MaxUrlLen}

\* probability vectors: entries in 1/Scale that sum to 1, or to a little
\* less as rounding leaves them
ProbVectors ==
    UNION {{p \in [1..n -> 0..Scale] :
               LET sum[k \in 0..n] == IF k = 0 THEN 0 ELSE sum[k - 1] + p[k]
               IN sum[n] \in (Scale - SumSlack)..Scale} : n \in 1..MaxProbLen}

SampleArgs == {[fn |-> "sampleIndex", probabilities |-> p] : p \in ProbVectors}
DecideArgs ==
    {[fn |-> "decideAction", stage |-> st, genome |-> g] :
        st \in {"adult", "old"}, g \in HeldGenomes}
CrossArgs ==
    {[fn |-> "crossover", ant |-> LayeredGenome(b1, CrossLen),
      partner |-> LayeredGenome(b2, CrossLen)] : b1 \in {-900, 500}, b2 \in {-900, 500}}

ApplySampleIndex ==
    /\ args.fn = "sampleIndex"
    /\ ~result.done
    /\ \E r \in Draws :
          result' = [done |-> TRUE, r |-> r,
                     index |-> sampleIndex(args.probabilities, r)]

\* decideAction for a non-egg: predict, softmax, sampleIndex, the action
ApplyDecideAction ==
    /\ args.fn = "decideAction"
    /\ ~result.done
    /\ \E probabilities \in Softmaxes(predictLen(args.genome, InputLen)) :
       \E r \in Draws :
          LET chosenIndex == sampleIndex(probabilities, r)
          IN result' = [done |-> TRUE, r |-> r, probabilities |-> probabilities,
                        chosenIndex |-> chosenIndex,
                        inputsRead |-> InputsRead(args.genome),
                        action |-> decideAction([stage |-> args.stage],
                                                chosenIndex)]

ApplyCrossover ==
    /\ args.fn = "crossover"
    /\ ~result.done
    /\ \E noiseW \in [1..LayerCount -> [1..CrossLen -> NoiseDraws]] :
       \E noiseB \in [1..LayerCount -> [1..CrossLen -> NoiseDraws]] :
          result' = [done |-> TRUE,
                     genome |-> crossover(args.ant, args.partner, noiseW, noiseB)]

InitPure ==
    /\ ants = <<>>
    /\ grid = EmptyMap
    /\ maxAnts = MaxCap
    /\ tickCount = 0
    /\ framesLeft = 0
    /\ LoopIdle
    /\ seedGenome = NullGenome
    /\ currentSelectedAnt = NullAnt
    /\ clicked = NoClick
    /\ acted = NoAct
    /\ args \in SampleArgs \cup DecideArgs \cup CrossArgs
    /\ result = NoResult

NextPure ==
    /\ ApplySampleIndex \/ ApplyDecideAction \/ ApplyCrossover
    /\ UNCHANGED <<ants, grid, maxAnts, tickCount, pc, idx, matedAnts, nextId,
                   isPaused, framesLeft, startAnts, jitter, processed, pairs,
                   preCull, born, changes, call, firstRet, seedGenome,
                   currentSelectedAnt, clicked, acted, args>>

SpecPure == InitPure /\ [][NextPure]_vars

\* the actions decideAction may return for a stage
C15_ActionSet(stage) ==
    IF stage = "adult" THEN {AdultActions[k] : k \in 1..Len(AdultActions)}
    ELSE {OtherActions[k] : k \in 1..Len(OtherActions)}

\* C15: for a non-egg organism and every genome it can hold, decideAction
\* returns a member of the action set of the organism's stage
C15_DecidesValidAction ==
    (args.fn = "decideAction" /\ result.done) =>
        result.action \in C15_ActionSet(args.stage)

\* the vector [1, 0, 0, ...] of length n
C16_OneHot(n) == [k \in 1..n |-> IF k = 1 THEN Scale ELSE 0]

\* C16: sampleIndex on a probability vector that sums to 1 returns an index
\* i with 0 <= i < length, and on [1, 0, 0, ...] it returns 0 for every draw
\* in [0, 1)
C16_SampleIndexInRange ==
    (args.fn = "sampleIndex" /\ result.done) =>
        /\ result.index \in 0..(Len(args.probabilities) - 1)
        /\ args.probabilities = C16_OneHot(Len(args.probabilities)) =>
              result.index = 0

\* sampleIndex has returned 0 on [1, 0, 0] for the largest draw
C16_Witness ==
    /\ args.fn = "sampleIndex"
    /\ result.done
    /\ args.probabilities = C16_OneHot(MaxProbLen)
    /\ result.r = Scale - 1
    /\ result.index = 0

\* layer i of the parent the offspring's layer i is taken from
C18_Selected(field, i) ==
    IF i % 2 = 1 THEN args.ant[field][i] ELSE args.partner[field][i]

\* C18: the offspring genome has the layer count and the layer sizes of both
\* parents; its layer at an even index (from 0) comes from the initiating
\* parent and at an odd index from the partner, each value within
\* genomeNoise / 2 of the selected parent's value
C18_CrossoverShapeAndNoise ==
    (args.fn = "crossover" /\ result.done) =>
        \A field \in {"weights", "biases"} :
            /\ Len(result.genome[field]) = Len(args.ant[field])
            /\ Len(result.genome[field]) = Len(args.partner[field])
            /\ \A i \in 1..Len(result.genome[field]) :
                  /\ Len(result.genome[field][i]) = Len(args.ant[field][i])
                  /\ Len(result.genome[field][i]) = Len(args.partner[field][i])
                  /\ \A k \in 1..Len(result.genome[field][i]) :
                        LET d == result.genome[field][i][k]
                                     - C18_Selected(field, i)[k]
                        IN 2 * d <= genomeNoise /\ 2 * d >= -genomeNoise

\* a crossover of two different parents has returned
C18_Witness ==
    /\ args.fn = "crossover"
    /\ result.done
    /\ args.ant # args.partner
    /\ result.genome.weights[2][1] = args.partner.weights[2][1] - (genomeNoise \div 2)

\* C34: a genome an organism holds and decides with has a first layer with
\* neurons, and the weight row of each of them has as many entries as the
\* sensory vector, so that the dot product reads all InputLen inputs
C34_FirstLayerFitsInput ==
    (result.done /\ args.fn = "decideAction") =>
        /\ result.inputsRead # <<>>
        /\ \A neuron \in DOMAIN result.inputsRead :
              result.inputsRead[neuron] = InputLen

(***************************************************************************)
(* The buttons that replace the simulation: Reset, Adopt Genome and Apply  *)
(* Parameters, with the canvas click that selects an ant.  The loop does   *)
(* not run in this specification: a population is as new Simulation()      *)
(* built it.                                                               *)
(***************************************************************************)
\* the cells the constructor places ants on (of Math.floor(Math.random() *
\* 100 - 50) in both coordinates)
PlaceCells == {<<0, 0>>, <<1, 0>>}

\* new Ant(x, y, seedGenome, 'adult'), lines 388-393 with 155-165: the seed
\* network itself when there is one, else a network of its own
BuiltAnt(id, c, seed) ==
    IF seed = NullGenome THEN NewAnt(id, c[1], c[2], "adult")
    ELSE SeededAnt(id, c[1], c[2], seed, "adult")

\* new Simulation(): antDensity ants, the first of them with identity first
Construct(seed, first, places) ==
    [k \in 1..antDensity |-> BuiltAnt(first + k - 1, places[k], seed)]

Placements == [1..antDensity -> PlaceCells]

\* simulation = new Simulation() inside a handler
Rebuild(seed) ==
    /\ (nextId - 1) \div antDensity <= MaxBuilds
    /\ \E places \in Placements : ants' = Construct(seed, nextId, places)
    /\ nextId' = nextId + antDensity
    /\ grid' = EmptyMap

\* a Reset that leaves the seed in place
ResetSeedKept(seed) == seed

\* line 600: seedGenome = null
ResetSeed(seed) == NullGenome

ControlFrame ==
    UNCHANGED <<maxAnts, tickCount, pc, idx, matedAnts, isPaused, framesLeft,
                startAnts, jitter, processed, pairs, preCull, born, changes,
                call, firstRet, acted, args, result>>

\* canvas click, lines 730-740: the first ant on the clicked cell is shown
ClickAnt ==
    /\ \E c \in PlaceCells :
          /\ getAntAt(ants, c[1], c[2]) # 0
          /\ LET a == ants[getAntAt(ants, c[1], c[2])]
             IN currentSelectedAnt' = [id |-> a.id, nn |-> a.nn, store |-> a.store]
    /\ clicked' = [clicked EXCEPT !.handler = "select"]
    /\ UNCHANGED <<ants, grid, nextId, seedGenome>>
    /\ ControlFrame

\* resetButton, lines 599-602
ClickReset ==
    /\ seedGenome' = ResetSeed(seedGenome)
    /\ Rebuild(seedGenome')
    /\ clicked' = [clicked EXCEPT !.handler = "reset"]
    /\ UNCHANGED currentSelectedAnt
    /\ ControlFrame

\* adoptGenome, lines 678-684: nothing happens without a selected ant
ClickAdopt ==
    /\ IF currentSelectedAnt # NullAnt
       THEN /\ seedGenome' = [nn |-> currentSelectedAnt.nn,
                              store |-> currentSelectedAnt.store]
            /\ Rebuild(seedGenome')
            /\ clicked' = [handler |-> "adopt",
                           adopted |-> clicked.adopted \cup {currentSelectedAnt.nn}]
       ELSE /\ clicked' = [clicked EXCEPT !.handler = "adoptNothing"]
            /\ UNCHANGED <<ants, grid, nextId, seedGenome>>
    /\ UNCHANGED currentSelectedAnt
    /\ ControlFrame

\* applyParameters, lines 618-636, with the values of the form unchanged:
\* new Simulation() under the seed there is
ClickApply ==
    /\ Rebuild(seedGenome)
    /\ clicked' = [clicked EXCEPT !.handler = "apply"]
    /\ UNCHANGED <<seedGenome, currentSelectedAnt>>
    /\ ControlFrame

\* the page as loaded without URL parameters: let simulation = new
\* Simulation() with seedGenome = null
InitControls ==
    /\ ants \in {Construct(NullGenome, 1, places) : places \in Placements}
    /\ grid = EmptyMap
    /\ maxAnts = MaxCap
    /\ tickCount = 0
    /\ framesLeft = 0
    /\ InitCommon

NextControls == ClickAnt \/ ClickReset \/ ClickAdopt \/ ClickApply

SpecControls == InitControls /\ [][NextControls]_vars

\* C20: right after Reset the seed genome is null and every organism has a
\* network and storage of its own that no organism held before, none of
\* them a network that was ever adopted; right after an Adopt Genome that
\* had a selected ant every organism holds the adopted network
C20_ResetAndAdopt ==
    /\ clicked.handler = "reset" =>
          /\ seedGenome = NullGenome
          /\ \A i \in 1..Len(ants) :
                /\ ants[i].nn = ants[i].id /\ ants[i].store = ants[i].id
                /\ ants[i].id >= nextId - antDensity
                /\ ants[i].nn \notin clicked.adopted
          /\ \A i, j \in 1..Len(ants) : i # j => ants[i].nn # ants[j].nn
    /\ clicked.handler = "adopt" =>
          /\ seedGenome.nn = currentSelectedAnt.nn
          /\ seedGenome # NullGenome
          /\ \A i \in 1..Len(ants) : /\ ants[i].nn = seedGenome.nn
                                    /\ ants[i].store = seedGenome.store

\* Reset has run on a population that was built from an adopted network
C20_Witness ==
    /\ clicked.handler = "reset"
    /\ clicked.adopted # {}
    /\ Len(ants) = antDensity
    /\ currentSelectedAnt.nn \in clicked.adopted

====
